---- MODULE Spec2Model ----
(***************************************************************************)
(* Dolly Guitar Tuner (wwwroot/app.js): the tuning session state machine,  *)
(* the noise learner, the gate, the smoothing and the classification.      *)
(*                                                                         *)
(* Representation.                                                         *)
(*  - A frequency is held on a logarithmic scale: an integer number of     *)
(*    millicents (1/1000 cent) above 440 Hz.  The scale is strictly        *)
(*    monotone, so every comparison of two frequencies is preserved,       *)
(*    f * 0.5 is f - 1200000, f * 2.0 is f + 1200000, and                  *)
(*    1200 * log2(f / g) is (f - g) / 1000 cents.  yinDetect's "no pitch"  *)
(*    frequency -1 is the value NoFreq.                                    *)
(*  - A real number that the code computes by arithmetic (smoothedCents,   *)
(*    the noise profile, prevMag) is an exact rational [n, d], d > 0, in   *)
(*    lowest terms; floating-point rounding is not modelled.               *)
(*  - A confidence is an integer number of thousandths (0 .. 1000).        *)
(*  - An RMS level is an integer number of ten-thousandths.                *)
(*  - An audio frame is what the code reads of it: its RMS level and the   *)
(*    magnitude spectrum of its Hann-windowed FFT (bins 0 .. halfSize).    *)
(*    The result of yinDetect on the cleaned buffer is an input of the     *)
(*    frame step, drawn from the results yinDetect can return.             *)
(*  - null is NULL for objects and arrays, 0 for animFrameId (the code     *)
(*    tests its truthiness) and NoLock for lockedString.                   *)
(***************************************************************************)
EXTENDS Integers, Sequences, FiniteSets, TLC

NULL == <<>>

---------------------------------------------------------------------------
(* Bounds of the model *)

\* getUserMedia requests that may be awaiting the user's answer at once
MaxPending == 2
\* detectPitch callbacks that may be scheduled at once
MaxLoops == 2
\* pitch estimations (non-silent frames while detecting) after one resumption of
\* startTuner
MaxEstimates == 2
\* stands for fftSize / 2 (2048 in the program): the spectrum has HalfSize + 1 bins
HalfSize == 1
\* pitch estimations on one held note in SpecSmooth
MaxSmoothSteps == 10
\* learnFrame calls on one NoiseCanceller in SpecNC
MaxLearnCalls == 22
\* process calls on one NoiseCanceller in SpecProcess
MaxProcessCalls == 3
\* half the length of the short buffers yinDetect is called on in SpecYin
YinHalfLen == 4
\* the sample values of the short buffers
YinSamples == {0, 1, 2}
\* in SpecNC the spectrum may change from call to call during the first MaxVaried calls
MaxVaried == 4

---------------------------------------------------------------------------
(* Program constants *)

\* MIN_CONFIDENCE = 0.85, in thousandths
MIN_CONFIDENCE == 850
\* this.learnTarget = 20
LearnTarget == 20
HISTORY_SIZE == 120
\* rms < 0.008, in ten-thousandths
SilenceRms == 80
\* yinDetect: threshold = 0.15, so a found pitch has confidence > 1 - 0.15, in thousandths
YinFoundAbove == 850
\* frequency: -1 of yinDetect's no-pitch result (no point of the log scale)
NoFreq == -99999999
\* lockedString = null
NoLock == -1
\* audioContext.sampleRate, in kHz
SampleRate == 48
\* let minCentsDiff = Infinity
Infinity == 2147483647
A4Default == 440
A4Min == 432
A4Max == 446
\* playingToneIndex = null
NoTone == -1
\* localStorage holds no usable 'guitar-tuner-a4': the item is absent or empty, or
\* parseInt of it is NaN or 0 (init then keeps 440)
NoSavedA4 == 0

---------------------------------------------------------------------------
(* Exact rational arithmetic *)

Abs(x) == IF x < 0 THEN -x ELSE x

RECURSIVE GCD(_, _)
GCD(a, b) == IF b = 0 THEN a ELSE GCD(b, a % b)

\* n / d in lowest terms, d > 0
Rat(n, d) == LET g == GCD(Abs(n), d) IN [n |-> n \div g, d |-> d \div g]
RInt(k) == [n |-> k, d |-> 1]
RZero == RInt(0)
\* the least common denominator keeps the intermediate products small
Lcd(a, b) == (a.d \div GCD(a.d, b.d)) * b.d
RAdd(a, b) ==
  LET l == Lcd(a, b) IN Rat(a.n * (l \div a.d) + b.n * (l \div b.d), l)
RSub(a, b) ==
  LET l == Lcd(a, b) IN Rat(a.n * (l \div a.d) - b.n * (l \div b.d), l)
RMul(a, b) == Rat(a.n * b.n, a.d * b.d)
RLe(a, b) == a.n * b.d <= b.n * a.d
RLt(a, b) == a.n * b.d < b.n * a.d
RAbs(a) == [n |-> Abs(a.n), d |-> a.d]
RMax(a, b) == IF RLe(b, a) THEN a ELSE b

---------------------------------------------------------------------------
(* Tunings and active strings *)

Str(note, octave, semi) == [note |-> note, octave |-> octave, semi |-> semi]

TUNINGS ==
  [standard     |-> <<Str("E", 2, -29), Str("A", 2, -24), Str("D", 3, -19),
                      Str("G", 3, -14), Str("B", 3, -10), Str("E", 4, -5)>>,
   dropD        |-> <<Str("D", 2, -31), Str("A", 2, -24), Str("D", 3, -19),
                      Str("G", 3, -14), Str("B", 3, -10), Str("E", 4, -5)>>,
   openG        |-> <<Str("D", 2, -31), Str("G", 2, -26), Str("D", 3, -19),
                      Str("G", 3, -14), Str("B", 3, -10), Str("D", 4, -7)>>,
   dadgad       |-> <<Str("D", 2, -31), Str("A", 2, -24), Str("D", 3, -19),
                      Str("G", 3, -14), Str("A", 3, -12), Str("D", 4, -7)>>,
   halfStepDown |-> <<Str("D#", 2, -30), Str("G#", 2, -25), Str("C#", 3, -20),
                      Str("F#", 3, -15), Str("A#", 3, -11), Str("D#", 4, -6)>>,
   openD        |-> <<Str("D", 2, -31), Str("A", 2, -24), Str("D", 3, -19),
                      Str("F#", 3, -15), Str("A", 3, -12), Str("D", 4, -7)>>]

TuningKeys == DOMAIN TUNINGS

\* 1200000 * log2(a4 / 440), rounded to the millicent, for a4 = 431 .. 447 (the
\* calibration range and one step beyond each end)
A4Millicents ==
  <<-35779, -31767, -27764, -23770, -19786, -15810, -11844, -7887, -3939, 0,
    3930, 7851, 11764, 15667, 19562, 23448, 27326>>

\* a4 * Math.pow(2, semi / 12) on the log scale
StringFreq(a4, semi) == A4Millicents[a4 - A4Min + 2] + semi * 100000

\* one octave on the log scale: * 2.0, * 0.5
Octave == 1200 * 1000

SeqMin(s) == CHOOSE m \in {s[i] : i \in DOMAIN s} : \A i \in DOMAIN s : m <= s[i]
SeqMax(s) == CHOOSE m \in {s[i] : i \in DOMAIN s} : \A i \in DOMAIN s : m >= s[i]

\* getActiveStrings, the recomputation: element i (from 1) is the code's strings[i - 1]
ComputeStrings(key, a4) ==
  [i \in 1..Len(TUNINGS[key]) |->
     [name      |-> TUNINGS[key][i].note,
      octave    |-> TUNINGS[key][i].octave,
      freq      |-> StringFreq(a4, TUNINGS[key][i].semi),
      stringNum |-> 6 - (i - 1)]]

\* faulty bounds: the lowest and the highest string themselves
ComputeBoundsTight(strings) ==
  LET freqs == [i \in DOMAIN strings |-> strings[i].freq]
  IN  [low |-> SeqMin(freqs), high |-> SeqMax(freqs)]

\* getActiveStrings: cachedBounds = { low: min * 0.5, high: max * 2.0 }
ComputeBounds(strings) ==
  LET freqs == [i \in DOMAIN strings |-> strings[i].freq]
  IN  [low |-> SeqMin(freqs) - Octave, high |-> SeqMax(freqs) + Octave]

\* getActiveStrings() on state s: the state after the call (the cache filled)
GetActiveStrings(s) ==
  IF ~s.stringsDirty /\ s.cachedStrings # NULL THEN s
  ELSE LET strings == ComputeStrings(s.activeTuningKey, s.a4Reference)
       IN  [s EXCEPT !.cachedStrings = strings,
                     !.cachedBounds = ComputeBounds(strings),
                     !.stringsDirty = FALSE]

\* getFrequencyBounds() on state s: the state after the call
GetFrequencyBounds(s) ==
  IF s.cachedBounds = NULL \/ s.stringsDirty THEN GetActiveStrings(s) ELSE s

\* 1200 * Math.log2(frequency / target), in cents
Cents(frequency, target) == Rat(frequency - target, 1000)

\* a faulty search: a later string at equal distance replaces the earlier one
RECURSIVE ClosestFromLast(_, _, _, _, _)
ClosestFromLast(strings, freq, i, closest, minCentsDiff) ==
  IF i > Len(strings) THEN closest
  ELSE LET centsDiff == Abs(freq - strings[i].freq)
       IN  IF centsDiff <= minCentsDiff
           THEN ClosestFromLast(strings, freq, i + 1, strings[i], centsDiff)
           ELSE ClosestFromLast(strings, freq, i + 1, closest, minCentsDiff)

\* findClosestString(freq), the loop from index i on; centsDiff and minCentsDiff
\* are in millicents (Math.abs(1200 * Math.log2(freq / strings[i].freq)) * 1000)
RECURSIVE ClosestFrom(_, _, _, _, _)
ClosestFrom(strings, freq, i, closest, minCentsDiff) ==
  IF i > Len(strings) THEN closest
  ELSE LET centsDiff == Abs(freq - strings[i].freq)
       IN  IF centsDiff < minCentsDiff
           THEN ClosestFrom(strings, freq, i + 1, strings[i], centsDiff)
           ELSE ClosestFrom(strings, freq, i + 1, closest, minCentsDiff)

\* findClosestString(freq) given the active strings
FindClosestString(strings, freq) == ClosestFrom(strings, freq, 1, strings[1], Infinity)

---------------------------------------------------------------------------
(* NoiseCanceller *)

NBins == HalfSize + 1
Bins == 1..NBins

\* a faulty constructor: the learner starts with a spectrum already accumulated
UsedNoiseCanceller ==
  [noiseProfile |-> NULL, learnFrames |-> <<[i \in Bins |-> 0]>>, learned |-> FALSE,
   prevMag |-> NULL]

\* new NoiseCanceller(fftSize)
NewNoiseCanceller ==
  [noiseProfile |-> NULL, learnFrames |-> <<>>, learned |-> FALSE, prevMag |-> NULL]

RECURSIVE SumBin(_, _, _)
SumBin(frames, i, f) ==
  IF f > Len(frames) THEN 0 ELSE frames[f][i] + SumBin(frames, i, f + 1)

\* the noise profile learnFrame builds: the per-bin average of the accumulated spectra
AverageProfile(frames) == [i \in Bins |-> Rat(SumBin(frames, i, 1), Len(frames))]

\* a faulty learnFrame: completes when the accumulator exceeds learnTarget
LearnFrameLate(nc, mag) ==
  IF nc.learned THEN [nc |-> nc, done |-> TRUE]
  ELSE LET frames == Append(nc.learnFrames, mag)
       IN  IF Len(frames) > LearnTarget
           THEN [nc |-> [nc EXCEPT !.noiseProfile = AverageProfile(frames),
                                   !.learnFrames = <<>>,
                                   !.learned = TRUE],
                 done |-> TRUE]
           ELSE [nc |-> [nc EXCEPT !.learnFrames = frames], done |-> FALSE]

\* learnFrame(buffer), mag the magnitude spectrum of the windowed buffer:
\* the canceller after the call and the value returned
LearnFrame(nc, mag) ==
  IF nc.learned THEN [nc |-> nc, done |-> TRUE]
  ELSE LET frames == Append(nc.learnFrames, mag)
       IN  IF Len(frames) >= LearnTarget
           THEN [nc |-> [nc EXCEPT !.noiseProfile = AverageProfile(frames),
                                   !.learnFrames = <<>>,
                                   !.learned = TRUE],
                 done |-> TRUE]
           ELSE [nc |-> [nc EXCEPT !.learnFrames = frames], done |-> FALSE]

\* a faulty subtraction: no spectral floor
SubtractNoFloor(mag, noise) == RSub(RInt(mag), RMul(RInt(2), noise))

\* process: Math.max(mag - 2.0 * this.noiseProfile[i], 0.002 * mag)
Subtract(mag, noise) ==
  RMax(RSub(RInt(mag), RMul(RInt(2), noise)), RMul(Rat(2, 1000), RInt(mag)))

\* a faulty process: the profile follows the spectrum of the frame processed
ProcessAdapting(nc, mag) ==
  IF ~nc.learned THEN nc
  ELSE [nc EXCEPT !.noiseProfile = [i \in Bins |-> RInt(mag[i])],
                  !.prevMag = [i \in Bins |-> RZero]]

\* process(buffer): the canceller after the call (prevMag updated)
Process(nc, mag) ==
  IF ~nc.learned THEN nc
  ELSE LET prev == IF nc.prevMag = NULL THEN [i \in Bins |-> RZero] ELSE nc.prevMag
       IN  [nc EXCEPT !.prevMag =
              [i \in Bins |-> RAdd(RMul(Rat(8, 10), prev[i]),
                                   RMul(Rat(2, 10), Subtract(mag[i], nc.noiseProfile[i])))]]

\* process(buffer): what it returns, as magnitudes: those of the buffer handed in
\* while nothing is learned, the cleaned magnitudes otherwise
ProcessReturn(nc, mag) ==
  IF ~nc.learned THEN [i \in Bins |-> RInt(mag[i])] ELSE Process(nc, mag).prevMag

---------------------------------------------------------------------------
(* State *)

VARIABLES
  isListening,       \* let isListening
  animFrameId,       \* id of the callback requested last, 0 for null
  micStream,         \* TRUE: a stream object, FALSE: null
  audioContext,      \* TRUE: a context object, FALSE: null
  timeDomainBuffer,  \* TRUE: allocated, FALSE: null
  yinBuffer,         \* TRUE: allocated, FALSE: null
  noiseCanceller,    \* a NoiseCanceller or NULL
  isLearningNoise,
  smoothedCents,     \* a rational, in cents
  wasInTune,
  lockedString,      \* 0 .. 5 or NoLock
  a4Reference,
  activeTuningKey,
  cachedStrings,     \* the sequence of active strings or NULL
  cachedBounds,      \* [low, high] or NULL
  stringsDirty,
  pitchHistory,      \* the ring buffer, indices 0 .. HISTORY_SIZE - 1 (see EmptyHistory)
  historyIndex,
  historyCount,
  dom,               \* the DOM elements the handlers write (see DomIdle)
  playingToneIndex,  \* 0 .. 5 or NoTone
  toneContext,       \* TRUE: a context with its gain and oscillators, FALSE: null
  toneTimeout,       \* the id setTimeout returned for the tone's timer, 0 for null
  toneTimers,        \* ids of the tone timers the browser holds pending
  savedA4,           \* localStorage 'guitar-tuner-a4', parsed (see NoSavedA4)
  savedTuning,       \* localStorage 'guitar-tuner-tuning', "" if absent
  pending,           \* startTuner calls suspended in await getUserMedia
  rafQueue,          \* ids of the callbacks requestAnimationFrame holds, oldest first
  lastOp,            \* observation: the handler that ran last
  out,               \* observation: what the last detectPitch pass did (see NoOut)
  framesSeen,        \* observation: frames received since the session left Idle,
                     \*   counted up to LearnTarget + 1
  estimates,         \* observation: yinDetect runs since startTuner last resumed
  prevAccepted,      \* observation: the last accepted frame since the session left
                     \*   Idle was "inTune", was "off", or there is "none"
  stopped            \* observation: stopTuner has run since the page was loaded

vars ==
  <<isListening, animFrameId, micStream, audioContext, timeDomainBuffer, yinBuffer,
    noiseCanceller, isLearningNoise, smoothedCents, wasInTune, lockedString,
    a4Reference, activeTuningKey, cachedStrings, cachedBounds, stringsDirty,
    pitchHistory, historyIndex, historyCount, dom, playingToneIndex, toneContext,
    toneTimeout, toneTimers, savedA4, savedTuning, pending, rafQueue, lastOp, out,
    framesSeen, estimates, prevAccepted, stopped>>

\* the state as one record, on which the handlers below are functions
Cur ==
  [isListening |-> isListening, animFrameId |-> animFrameId, micStream |-> micStream,
   audioContext |-> audioContext, timeDomainBuffer |-> timeDomainBuffer,
   yinBuffer |-> yinBuffer, noiseCanceller |-> noiseCanceller,
   isLearningNoise |-> isLearningNoise, smoothedCents |-> smoothedCents,
   wasInTune |-> wasInTune, lockedString |-> lockedString, a4Reference |-> a4Reference,
   activeTuningKey |-> activeTuningKey, cachedStrings |-> cachedStrings,
   cachedBounds |-> cachedBounds, stringsDirty |-> stringsDirty,
   pitchHistory |-> pitchHistory, historyIndex |-> historyIndex,
   historyCount |-> historyCount, dom |-> dom, pending |-> pending,
   rafQueue |-> rafQueue, lastOp |-> lastOp, out |-> out, framesSeen |-> framesSeen,
   estimates |-> estimates, prevAccepted |-> prevAccepted,
   playingToneIndex |-> playingToneIndex, toneContext |-> toneContext,
   toneTimeout |-> toneTimeout, toneTimers |-> toneTimers, savedA4 |-> savedA4,
   savedTuning |-> savedTuning,
   stopped |-> stopped]

\* the next state is the record s
Becomes(s) ==
  /\ isListening' = s.isListening
  /\ animFrameId' = s.animFrameId
  /\ micStream' = s.micStream
  /\ audioContext' = s.audioContext
  /\ timeDomainBuffer' = s.timeDomainBuffer
  /\ yinBuffer' = s.yinBuffer
  /\ noiseCanceller' = s.noiseCanceller
  /\ isLearningNoise' = s.isLearningNoise
  /\ smoothedCents' = s.smoothedCents
  /\ wasInTune' = s.wasInTune
  /\ lockedString' = s.lockedString
  /\ a4Reference' = s.a4Reference
  /\ activeTuningKey' = s.activeTuningKey
  /\ cachedStrings' = s.cachedStrings
  /\ cachedBounds' = s.cachedBounds
  /\ stringsDirty' = s.stringsDirty
  /\ pitchHistory' = s.pitchHistory
  /\ historyIndex' = s.historyIndex
  /\ historyCount' = s.historyCount
  /\ dom' = s.dom
  /\ pending' = s.pending
  /\ rafQueue' = s.rafQueue
  /\ lastOp' = s.lastOp
  /\ out' = s.out
  /\ framesSeen' = s.framesSeen
  /\ estimates' = s.estimates
  /\ prevAccepted' = s.prevAccepted
  /\ playingToneIndex' = s.playingToneIndex
  /\ toneContext' = s.toneContext
  /\ toneTimeout' = s.toneTimeout
  /\ toneTimers' = s.toneTimers
  /\ savedA4' = s.savedA4
  /\ savedTuning' = s.savedTuning
  /\ stopped' = s.stopped

\* what one detectPitch pass did; phase is the session state in which the frame
\* arrived, mag the spectrum handed to learnFrame; of a call of setA4 or
\* findClosestString, arg is the argument and found the string returned; of a
\* click or a number key, arg is the index of the button or the digit
NoOut ==
  [ran |-> FALSE, phase |-> "Idle", silent |-> FALSE, learnFed |-> FALSE, learnDone |-> FALSE,
   estimated |-> FALSE, reported |-> FALSE, frequency |-> NoFreq, confidence |-> 0,
   accepted |-> FALSE, vibrated |-> FALSE, mag |-> NULL, arg |-> 0, found |-> NULL,
   clean |-> NULL, buffer |-> NULL, yin |-> NULL]

\* the elements as stopTuner leaves them (and as the page shows them before a start);
\* confidenceLabel is <<pct>> for "pct%" and NULL for "--"
DomIdle ==
  [btnListening |-> FALSE, detectedNote |-> "--", detectedOctave |-> NULL,
   statusText |-> "Tap Start to begin", statusClass |-> "",
   confidenceWidth |-> 0, confidenceColor |-> "text-dim", confidenceLabel |-> NULL]

\* pitchHistory.fill(0).  The ring buffer is held sparsely: the function maps the
\* indices written since the last fill(0), every other element is 0
EmptyHistory == <<>>

\* pitchHistory[i]
HistoryAt(history, i) == IF i \in DOMAIN history THEN history[i] ELSE RZero

\* pitchHistory[i] = value
HistoryPut(history, i, value) ==
  [j \in (DOMAIN history) \cup {i} |-> IF j = i THEN value ELSE history[j]]

\* Idle / Learning / Detecting, read off isListening and isLearningNoise
PhaseOf(s) ==
  IF ~s.isListening THEN "Idle" ELSE IF s.isLearningNoise THEN "Learning" ELSE "Detecting"

SessionState == PhaseOf(Cur)

---------------------------------------------------------------------------
(* Handlers *)

\* a faulty updateConfidence: writes nothing
UpdateConfidenceNone(s, confidence) == s

\* updateConfidence(confidence)
UpdateConfidence(s, confidence) ==
  LET pct == (confidence + 5) \div 10
  IN  [s EXCEPT !.dom.confidenceWidth = pct,
                !.dom.confidenceLabel = <<pct>>,
                !.dom.confidenceColor = IF pct < 70 THEN "accent"
                                        ELSE IF pct < 85 THEN "yellow" ELSE "green",
                !.out.reported = TRUE]

\* a faulty smoothing: equal weights
SmoothHalf(smoothed, cents) == RAdd(RMul(smoothed, Rat(5, 10)), RMul(cents, Rat(5, 10)))

\* smoothedCents * 0.6 + cents * 0.4
Smooth(smoothed, cents) == RAdd(RMul(smoothed, Rat(6, 10)), RMul(cents, Rat(4, 10)))

\* isInTune = absCents <= 5
IsInTune(smoothed) == RLe(RAbs(smoothed), RInt(5))

\* a faulty classification: the boundary at 15 cents is exclusive
ClassifyStrict(smoothed) ==
  IF IsInTune(smoothed) THEN [text |-> "In Tune!", class |-> "in-tune"]
  ELSE IF RLt(RAbs(smoothed), RInt(15))
       THEN [text  |-> IF RLt(smoothed, RZero) THEN "Almost - tune up slightly"
                       ELSE "Almost - tune down slightly",
             class |-> "close"]
  ELSE IF RLt(smoothed, RZero) THEN [text |-> "Tune Up", class |-> "flat"]
  ELSE [text |-> "Tune Down", class |-> "sharp"]

\* the status message and class updateUI chooses
Classify(smoothed) ==
  IF IsInTune(smoothed) THEN [text |-> "In Tune!", class |-> "in-tune"]
  ELSE IF RLe(RAbs(smoothed), RInt(15))
       THEN [text  |-> IF RLt(smoothed, RZero) THEN "Almost - tune up slightly"
                       ELSE "Almost - tune down slightly",
             class |-> "close"]
  ELSE IF RLt(smoothed, RZero) THEN [text |-> "Tune Up", class |-> "flat"]
  ELSE [text |-> "Tune Down", class |-> "sharp"]

\* updateUI(frequency)
\* a faulty choice of the target: the lock is ignored
TargetStringNearest(strings, locked, frequency) == FindClosestString(strings, frequency)

\* the target string of updateUI: the locked string, else the closest one
TargetString(strings, locked, frequency) ==
  IF locked # NoLock THEN strings[locked + 1]
  ELSE FindClosestString(strings, frequency)

UpdateUI(s, frequency) ==
  LET s1 == GetActiveStrings(s)
      strings == s1.cachedStrings
      targetString == TargetString(strings, s1.lockedString, frequency)
      cents == Cents(frequency, targetString.freq)
      smoothed == Smooth(s1.smoothedCents, cents)
      isInTune == IsInTune(smoothed)
      status == Classify(smoothed)
  IN  [s1 EXCEPT !.smoothedCents = smoothed,
                 !.dom.detectedNote = targetString.name,
                 !.dom.detectedOctave = <<targetString.octave>>,
                 !.dom.statusText = status.text,
                 !.dom.statusClass = status.class,
                 !.out.vibrated = isInTune /\ ~s1.wasInTune,
                 !.wasInTune = isInTune,
                 !.pitchHistory = HistoryPut(@, s1.historyIndex, smoothed),
                 !.historyIndex = (s1.historyIndex + 1) % HISTORY_SIZE,
                 !.historyCount = IF s1.historyCount < HISTORY_SIZE
                                  THEN s1.historyCount + 1 ELSE s1.historyCount,
                 !.out.accepted = TRUE,
                 !.prevAccepted = IF isInTune THEN "inTune" ELSE "off"]

\* a faulty silence test: no frame is silent
IsSilentNever(frame) == frame.rms < 0

\* rms < 0.008
IsSilent(frame) == frame.rms < SilenceRms

\* a faulty gate: the lower bound is inclusive
GateInclusive(result, bounds) ==
  /\ result.frequency # NoFreq
  /\ result.frequency >= bounds.low
  /\ result.frequency < bounds.high
  /\ result.confidence >= MIN_CONFIDENCE

\* the gate of detectPitch on a result, bounds = getFrequencyBounds()
Gate(result, bounds) ==
  /\ result.frequency # NoFreq
  /\ result.frequency > bounds.low
  /\ result.frequency < bounds.high
  /\ result.confidence >= MIN_CONFIDENCE

\* an id requestAnimationFrame has not handed out to a callback it still holds
FreshId(queue) ==
  CHOOSE id \in 1..(Len(queue) + 1) :
    /\ \A k \in DOMAIN queue : queue[k] # id
    /\ \A j \in 1..(id - 1) : \E k \in DOMAIN queue : queue[k] = j

\* animFrameId = requestAnimationFrame(detectPitch)
RequestFrame(s) ==
  LET id == FreshId(s.rafQueue)
  IN  [s EXCEPT !.rafQueue = Append(@, id), !.animFrameId = id]

\* a faulty detectPitch: the learning ends with the first frame handed in
FeedLearnerHasty(s, frame) ==
  LET r == LearnFrame(s.noiseCanceller, frame.mag)
  IN  [s EXCEPT !.noiseCanceller = r.nc,
                !.isLearningNoise = FALSE,
                !.dom.statusText = "Listening...",
                !.out.learnFed = TRUE,
                !.out.mag = frame.mag,
                !.out.learnDone = r.done]

\* detectPitch: const done = noiseCanceller.learnFrame(timeDomainBuffer); if (done) ...
FeedLearner(s, frame) ==
  LET r == LearnFrame(s.noiseCanceller, frame.mag)
  IN  [s EXCEPT !.noiseCanceller = r.nc,
                !.isLearningNoise = IF r.done THEN FALSE ELSE @,
                !.dom.statusText = IF r.done THEN "Listening..." ELSE @,
                !.out.learnFed = TRUE,
                !.out.mag = frame.mag,
                !.out.learnDone = r.done]

\* detectPitch: from noiseCanceller.process to the gate and updateUI
Estimate(s, frame, result) ==
  LET s1 == [s EXCEPT !.noiseCanceller =
                        IF @ # NULL THEN Process(@, frame.mag) ELSE @,
                      !.out.estimated = TRUE,
                      !.out.frequency = result.frequency,
                      !.out.confidence = result.confidence,
                      !.estimates = @ + 1]
      s2 == UpdateConfidence(s1, result.confidence)
      s3 == GetFrequencyBounds(s2)
  IN  IF Gate(result, s3.cachedBounds) THEN UpdateUI(s3, result.frequency) ELSE s3

\* detectPitch() on state s, with the frame the analyser delivers and the result
\* yinDetect returns if it is run
DetectPitch(s, frame, result) ==
  IF ~s.isListening THEN s
  ELSE LET s0 == [s EXCEPT !.out.ran = TRUE,
                           !.out.phase = PhaseOf(s),
                           !.out.silent = (frame.rms < SilenceRms),
                           !.framesSeen = IF @ <= LearnTarget THEN @ + 1 ELSE @]
       IN  IF IsSilent(frame)
           THEN RequestFrame(IF s0.isLearningNoise /\ s0.noiseCanceller # NULL
                             THEN FeedLearner(s0, frame) ELSE s0)
           ELSE IF s0.isLearningNoise /\ s0.noiseCanceller # NULL
                THEN RequestFrame(FeedLearner(s0, frame))
                ELSE RequestFrame(Estimate(s0, frame, result))

\* startTuner, from the resolution of getUserMedia to the end of the try block
StartTunerGranted(s, frame, result) ==
  DetectPitch([s EXCEPT !.pending = @ - 1,
                        !.micStream = TRUE,
                        !.audioContext = TRUE,
                        !.timeDomainBuffer = TRUE,
                        !.yinBuffer = TRUE,
                        !.noiseCanceller = NewNoiseCanceller,
                        !.isLearningNoise = TRUE,
                        !.isListening = TRUE,
                        !.wasInTune = FALSE,
                        !.dom.btnListening = TRUE,
                        !.dom.statusText = "Learning background noise...",
                        !.dom.statusClass = "",
                        !.pitchHistory = EmptyHistory,
                        !.historyIndex = 0,
                        !.historyCount = 0,
                        !.lastOp = "granted",
                        !.out = NoOut,
                        !.framesSeen = IF s.isListening THEN @ ELSE 0,
                        !.estimates = 0,
                        !.prevAccepted = IF s.isListening THEN @ ELSE "none"],
              frame, result)

\* a faulty catch block: the microphone request is made again
StartTunerDeniedRetry(s) ==
  [s EXCEPT !.dom.statusText = "Microphone access denied",
            !.dom.statusClass = "flat",
            !.lastOp = "denied",
            !.out = NoOut]

\* startTuner, the catch block: getUserMedia rejected
StartTunerDenied(s) ==
  [s EXCEPT !.pending = @ - 1,
            !.dom.statusText = "Microphone access denied",
            !.dom.statusClass = "flat",
            !.lastOp = "denied",
            !.out = NoOut]

\* cancelAnimationFrame(id)
CancelFrame(queue, id) == SelectSeq(queue, LAMBDA x : x # id)

\* a faulty stopReferenceTone: the timer is forgotten, not cleared
StopReferenceToneNoClear(s) ==
  [s EXCEPT !.toneTimeout = 0,
            !.toneContext = FALSE,
            !.playingToneIndex = NoTone]

\* stopReferenceTone(); clearTimeout of a timer that has fired does nothing
StopReferenceTone(s) ==
  [s EXCEPT !.toneTimers = IF s.toneTimeout # 0 THEN @ \ {s.toneTimeout} ELSE @,
            !.toneTimeout = 0,
            !.toneContext = FALSE,
            !.playingToneIndex = NoTone]

\* an id setTimeout has not handed out to a tone timer still pending
FreshTimer(timers) ==
  CHOOSE id \in 1..(Cardinality(timers) + 1) :
    id \notin timers /\ \A j \in 1..(id - 1) : j \in timers

\* playReferenceTone(index), index counted from 0
PlayReferenceTone(s, index) ==
  LET s1 == GetActiveStrings(StopReferenceTone(s))
  IN  IF index < 0 \/ index >= Len(s1.cachedStrings) THEN s1
      ELSE [s1 EXCEPT !.toneContext = TRUE,
                      !.playingToneIndex = index,
                      !.toneTimeout = FreshTimer(s1.toneTimers),
                      !.toneTimers = @ \cup {FreshTimer(s1.toneTimers)}]

\* stopTuner(), which ends with stopReferenceTone()
StopTuner(s) ==
  [StopReferenceTone(s) EXCEPT
            !.isListening = FALSE,
            !.rafQueue = IF s.animFrameId # 0 THEN CancelFrame(@, s.animFrameId) ELSE @,
            !.animFrameId = 0,
            !.micStream = FALSE,
            !.audioContext = FALSE,
            !.timeDomainBuffer = FALSE,
            !.yinBuffer = FALSE,
            !.noiseCanceller = NULL,
            !.isLearningNoise = FALSE,
            !.dom = DomIdle,
            !.smoothedCents = RZero,
            !.wasInTune = FALSE,
            !.pitchHistory = EmptyHistory,
            !.historyIndex = 0,
            !.historyCount = 0,
            !.lastOp = "stopTuner",
            !.out = NoOut,
            !.framesSeen = 0,
            !.estimates = 0,
            !.prevAccepted = "none",
            !.stopped = TRUE]

\* a faulty invalidateStrings: the cache is kept
InvalidateNothing(s) == s

\* invalidateStrings()
InvalidateStrings(s) ==
  [s EXCEPT !.stringsDirty = TRUE, !.cachedStrings = NULL, !.cachedBounds = NULL]

\* rebuildStringSelector(): the buttons are rebuilt from getActiveStrings() and
\* lockedString and hold no state of their own
RebuildStringSelector(s) == GetActiveStrings(s)

Min(a, b) == IF a <= b THEN a ELSE b
Max(a, b) == IF a >= b THEN a ELSE b

\* a faulty setA4: the upper end of the range is one step too high
SetA4Wide(s, value) ==
  LET a4 == Max(A4Min, Min(A4Max + 1, value))
      s1 == RebuildStringSelector(InvalidateStrings([s EXCEPT !.a4Reference = a4]))
  IN  [s1 EXCEPT !.savedA4 = a4,
                 !.lastOp = "setA4",
                 !.out = [NoOut EXCEPT !.arg = value]]

\* setA4(value)
SetA4(s, value) ==
  LET a4 == Max(A4Min, Min(A4Max, value))
      s1 == RebuildStringSelector(InvalidateStrings([s EXCEPT !.a4Reference = a4]))
  IN  [s1 EXCEPT !.savedA4 = a4,
                 !.lastOp = "setA4",
                 !.out = [NoOut EXCEPT !.arg = value]]

\* a faulty selectTuning: the lock is kept
SelectTuningKeepLock(s, key) ==
  IF key \notin TuningKeys THEN [s EXCEPT !.lastOp = "selectTuning", !.out = NoOut]
  ELSE LET s1 == InvalidateStrings([s EXCEPT !.activeTuningKey = key])
           s2 == RebuildStringSelector(s1)
       IN  [s2 EXCEPT !.savedTuning = key,
                      !.lastOp = "selectTuning",
                      !.out = NoOut]

\* selectTuning(key)
SelectTuning(s, key) ==
  IF key \notin TuningKeys THEN [s EXCEPT !.lastOp = "selectTuning", !.out = NoOut]
  ELSE LET s1 == InvalidateStrings([s EXCEPT !.activeTuningKey = key])
           s2 == RebuildStringSelector([s1 EXCEPT !.lockedString = NoLock])
       IN  [s2 EXCEPT !.savedTuning = key,
                      !.lastOp = "selectTuning",
                      !.out = NoOut]

\* a faulty click listener: locking a string starts the smoothing over
StringClickFresh(s, i) ==
  LET s1 == IF s.lockedString = i
            THEN StopReferenceTone([s EXCEPT !.lockedString = NoLock])
            ELSE PlayReferenceTone([s EXCEPT !.lockedString = i,
                                             !.smoothedCents = RZero,
                                             !.wasInTune = FALSE], i)
  IN  [s1 EXCEPT !.lastOp = "stringClick", !.out = [NoOut EXCEPT !.arg = i]]

\* the click listener of string button i (from 0), the tone trigger not hit
StringClick(s, i) ==
  LET s1 == IF s.lockedString = i
            THEN StopReferenceTone([s EXCEPT !.lockedString = NoLock])
            ELSE PlayReferenceTone([s EXCEPT !.lockedString = i], i)
  IN  [s1 EXCEPT !.lastOp = "stringClick", !.out = [NoOut EXCEPT !.arg = i]]

\* the click listener of the tone trigger of string button i (from 0)
ToneTriggerClick(s, i) ==
  LET s1 == IF s.playingToneIndex = i THEN StopReferenceTone(s)
            ELSE PlayReferenceTone(s, i)
  IN  [s1 EXCEPT !.lastOp = "toneTrigger", !.out = [NoOut EXCEPT !.arg = i]]

\* handleKeyboard(e) for e.key = '1' .. '6', key the digit
NumberKey(s, key) ==
  LET index == key - 1
      s1 == GetActiveStrings(s)
      mappedIndex == Len(s1.cachedStrings) - 1 - index
      s2 == IF index < Len(s1.cachedStrings)
            THEN RebuildStringSelector(
                   [s1 EXCEPT !.lockedString = IF @ = mappedIndex THEN NoLock
                                               ELSE mappedIndex])
            ELSE s1
  IN  [s2 EXCEPT !.lastOp = "numberKey", !.out = [NoOut EXCEPT !.arg = key]]

\* startTuner, up to await navigator.mediaDevices.getUserMedia(...)
StartTunerCalled(s) ==
  [s EXCEPT !.pending = @ + 1, !.lastOp = "startTuner", !.out = NoOut]

\* toggleTuner()
ToggleTunerOn(s) == IF s.isListening THEN StopTuner(s) ELSE StartTunerCalled(s)

---------------------------------------------------------------------------
(* yinDetect *)

\* the values of JavaScript numbers that are no numbers: 0/0, 1/0 and -1/0
NaN == [n |-> 0, d |-> 0]
PosInf == [n |-> 1, d |-> 0]
NegInf == [n |-> -1, d |-> 0]
IsFinite(a) == a.d # 0

\* a < b and a <= b on values that are finite or NaN: false if one is NaN
FLt(a, b) == IsFinite(a) /\ IsFinite(b) /\ RLt(a, b)
FLe(a, b) == IsFinite(a) /\ IsFinite(b) /\ RLe(a, b)

\* a / b of finite a and b # 0, the common factors taken out before multiplying
RDiv(a, b) ==
  LET g1 == GCD(Abs(a.n), Abs(b.n))
      g2 == GCD(a.d, b.d)
      n == (a.n \div g1) * (b.d \div g2)
      d == (a.d \div g2) * (b.n \div g1)
  IN  IF d < 0 THEN Rat(-n, -d) ELSE Rat(n, d)

\* a / b as JavaScript divides
FDiv(a, b) ==
  IF ~IsFinite(a) \/ ~IsFinite(b)
  THEN (IF IsFinite(a) /\ b # NaN THEN RZero ELSE NaN)
  ELSE IF b.n = 0
       THEN (IF a.n = 0 THEN NaN ELSE IF a.n > 0 THEN PosInf ELSE NegInf)
       ELSE RDiv(a, b)

\* const threshold = 0.15
YinThreshold == Rat(15, 100)

\* halfLen = Math.floor(buffer.length / 2)
HalfLen(buffer) == Len(buffer) \div 2

\* diff of yinDetect for lag tau: the sum over i < halfLen of
\* (buffer[i] - buffer[i + tau])^2, summed from index i on
RECURSIVE SquaredDiff(_, _, _)
SquaredDiff(buffer, tau, i) ==
  IF i >= HalfLen(buffer) THEN 0
  ELSE (buffer[i + 1] - buffer[i + tau + 1]) * (buffer[i + 1] - buffer[i + tau + 1])
         + SquaredDiff(buffer, tau, i + 1)

\* runningSum after the pass for lag tau
RECURSIVE RunningSum(_, _)
RunningSum(buffer, tau) ==
  IF tau < 1 THEN 0 ELSE SquaredDiff(buffer, tau, 0) + RunningSum(buffer, tau - 1)

\* a faulty normalization: a zero running sum leaves the difference 0
NormalizedZero(diff, tau, runningSum) ==
  IF runningSum = 0 THEN RZero ELSE Rat(diff * tau, runningSum)

\* yinBuffer[tau] *= tau / runningSum: with runningSum 0 the factor is Infinity and
\* the difference, which is 0 then, times Infinity is NaN
Normalized(diff, tau, runningSum) ==
  IF runningSum = 0 THEN NaN ELSE Rat(diff * tau, runningSum)

\* yinBuffer after steps 1 to 3, indices 0 .. halfLen - 1, as a sequence from index 0
CumulativeMean(buffer) ==
  [k \in 1..HalfLen(buffer) |->
     IF k = 1 THEN RInt(1)
     ELSE Normalized(SquaredDiff(buffer, k - 1, 0), k - 1, RunningSum(buffer, k - 1))]

\* while (tau + 1 < halfLen && yinBuffer[tau + 1] < yinBuffer[tau]) tau++
RECURSIVE LocalMinimum(_, _)
LocalMinimum(yb, tau) ==
  IF tau + 1 < Len(yb) /\ FLt(yb[tau + 2], yb[tau + 1]) THEN LocalMinimum(yb, tau + 1)
  ELSE tau

\* a faulty step 4: the first lag below the threshold is taken as it is
RECURSIVE FirstBelow(_, _)
FirstBelow(yb, tau) ==
  IF tau >= Len(yb) THEN -1
  ELSE IF FLt(yb[tau + 1], YinThreshold) THEN tau
  ELSE FirstBelow(yb, tau + 1)

\* step 4 from lag tau on: tauEstimate, -1 if no lag is below the threshold
RECURSIVE TauEstimate(_, _)
TauEstimate(yb, tau) ==
  IF tau >= Len(yb) THEN -1
  ELSE IF FLt(yb[tau + 1], YinThreshold) THEN LocalMinimum(yb, tau)
  ELSE TauEstimate(yb, tau + 1)

\* tauEstimate + (s2 - s0) / (2 * (2 * s1 - s2 - s0))
Parabola(tauEstimate, s0, s1, s2) ==
  IF ~IsFinite(s0) \/ ~IsFinite(s1) \/ ~IsFinite(s2) THEN NaN
  ELSE LET offset == FDiv(RSub(s2, s0),
                          RMul(RInt(2), RSub(RSub(RMul(RInt(2), s1), s2), s0)))
       IN  IF IsFinite(offset) THEN RAdd(RInt(tauEstimate), offset) ELSE offset

\* a faulty step 5: the parabola also at the edges of the buffer
BetterTauNoEdge(yb, tauEstimate) ==
  LET x0 == IF tauEstimate < 1 THEN tauEstimate ELSE tauEstimate - 1
      x2 == IF tauEstimate + 1 < Len(yb) THEN tauEstimate + 1 ELSE tauEstimate
  IN  Parabola(tauEstimate, yb[x0 + 1], yb[tauEstimate + 1], yb[x2 + 1])

\* step 5: betterTau
BetterTau(yb, tauEstimate) ==
  LET x0 == IF tauEstimate < 1 THEN tauEstimate ELSE tauEstimate - 1
      x2 == IF tauEstimate + 1 < Len(yb) THEN tauEstimate + 1 ELSE tauEstimate
  IN  IF x0 = tauEstimate
      THEN (IF FLe(yb[tauEstimate + 1], yb[x2 + 1]) THEN RInt(tauEstimate) ELSE RInt(x2))
      ELSE IF x2 = tauEstimate
      THEN (IF FLe(yb[tauEstimate + 1], yb[x0 + 1]) THEN RInt(tauEstimate) ELSE RInt(x0))
      ELSE Parabola(tauEstimate, yb[x0 + 1], yb[tauEstimate + 1], yb[x2 + 1])

\* Math.max(0, Math.min(1, confidence))
Clamp01(c) ==
  IF ~IsFinite(c) THEN NaN
  ELSE IF RLt(c, RZero) THEN RZero ELSE IF RLt(RInt(1), c) THEN RInt(1) ELSE c

\* a faulty confidence: the aperiodicity itself
ConfidenceWrong(yb, tauEstimate) == Clamp01(yb[tauEstimate + 1])

\* const confidence = 1 - yinBuffer[tauEstimate], clamped at the return
Confidence(yb, tauEstimate) == Clamp01(RSub(RInt(1), yb[tauEstimate + 1]))

\* yinDetect(buffer, sampleRate): the result, with tauEstimate, betterTau and
\* the yinBuffer it leaves
YinDetect(buffer, sampleRate) ==
  LET yb == CumulativeMean(buffer)
      tauEstimate == TauEstimate(yb, 2)
  IN  IF tauEstimate = -1
      THEN [frequency |-> RInt(-1), confidence |-> RZero, tauEstimate |-> -1,
            betterTau |-> NULL, yinBuffer |-> yb]
      ELSE LET betterTau == BetterTau(yb, tauEstimate)
           IN  [frequency |-> FDiv(RInt(sampleRate), betterTau),
                confidence |-> Confidence(yb, tauEstimate),
                tauEstimate |-> tauEstimate,
                betterTau |-> betterTau, yinBuffer |-> yb]

---------------------------------------------------------------------------
(* Inputs *)

ZeroMag == [i \in Bins |-> 0]
NoiseMag == [i \in Bins |-> i]

\* the all-zero frame; two frames of one background noise, one just under the
\* silence threshold and one at it
ZeroFrame == [rms |-> 0, mag |-> ZeroMag]
FaintFrame == [rms |-> SilenceRms - 1, mag |-> NoiseMag]
LoudFrame == [rms |-> SilenceRms, mag |-> NoiseMag]
Frames == {ZeroFrame, FaintFrame, LoudFrame}
\* a loud note with no energy in the lowest bins
ToneFrame == [rms |-> 1000, mag |-> ZeroMag]

\* the frames tried on state s: while a learner accumulates, the background is
\* stationary (every frame has the spectrum of the frames accumulated so far)
FramesFor(s) ==
  IF s.isListening /\ s.isLearningNoise /\ s.noiseCanceller # NULL
     /\ s.noiseCanceller.learnFrames # <<>>
  THEN {f \in Frames : f.mag = s.noiseCanceller.learnFrames[1]}
  ELSE Frames

\* yinDetect's results: no pitch, or a frequency with a confidence above 1 - threshold
NoPitch == [frequency |-> NoFreq, confidence |-> 0]
Found(frequency, confidence) == [frequency |-> frequency, confidence |-> confidence]

\* results tried on state s, placed relative to the current strings: none, a pitch
\* 12.5 cents above the lowest string, a pitch 2.5 cents above the third string
YinResults(s) ==
  LET strings == ComputeStrings(s.activeTuningKey, s.a4Reference)
  IN  {NoPitch,
       Found(strings[1].freq + 12500, 1000),
       Found(strings[3].freq + 2500, YinFoundAbove + 1)}

\* detectPitch on s would reach yinDetect with this frame
WillEstimate(s, frame) ==
  /\ s.isListening
  /\ ~(s.isLearningNoise /\ s.noiseCanceller # NULL)
  /\ ~IsSilent(frame)

ResultsFor(s, frame, results) == IF WillEstimate(s, frame) THEN results ELSE {NoPitch}

---------------------------------------------------------------------------
(* Initial state and actions *)

\* init: a4Reference = parseInt(savedA4) || 440, if an item is stored
RestoreA4(saved) == IF saved = NoSavedA4 THEN A4Default ELSE saved

\* init: activeTuningKey = savedTuning, if savedTuning && TUNINGS[savedTuning]
RestoreTuning(saved) == IF saved \in TuningKeys THEN saved ELSE "standard"

\* the state init() leaves, given what localStorage holds of the calibration and
\* the tuning; nc is the value of noiseCanceller (null in the program)
InitWith(a4Stored, keyStored, nc) ==
  /\ savedA4 = a4Stored
  /\ savedTuning = keyStored
  /\ playingToneIndex = NoTone
  /\ toneContext = FALSE
  /\ toneTimeout = 0
  /\ toneTimers = {}
  /\ isListening = FALSE
  /\ animFrameId = 0
  /\ micStream = FALSE
  /\ audioContext = FALSE
  /\ timeDomainBuffer = FALSE
  /\ yinBuffer = FALSE
  /\ noiseCanceller = nc
  /\ isLearningNoise = FALSE
  /\ smoothedCents = RZero
  /\ wasInTune = FALSE
  /\ lockedString = NoLock
  /\ a4Reference = RestoreA4(a4Stored)
  /\ activeTuningKey = RestoreTuning(keyStored)
  /\ cachedStrings = ComputeStrings(RestoreTuning(keyStored), RestoreA4(a4Stored))
  /\ cachedBounds = ComputeBounds(ComputeStrings(RestoreTuning(keyStored),
                                                 RestoreA4(a4Stored)))
  /\ stringsDirty = FALSE
  /\ pitchHistory = EmptyHistory
  /\ historyIndex = 0
  /\ historyCount = 0
  /\ dom = DomIdle
  /\ pending = 0
  /\ rafQueue = <<>>
  /\ lastOp = "init"
  /\ out = NoOut
  /\ framesSeen = 0
  /\ estimates = 0
  /\ prevAccepted = "none"
  /\ stopped = FALSE

\* nothing persisted: A4 = 440, standard tuning
Init == InitWith(NoSavedA4, "", NULL)

\* a click on the start button, or the space key: toggleTuner()
ToggleTuner ==
  /\ isListening \/ pending < MaxPending
  /\ Becomes(ToggleTunerOn(Cur))

\* the Escape key: if (e.key === 'Escape' && isListening) stopTuner()
KeyEscape ==
  /\ isListening
  /\ Becomes(StopTuner(Cur))

\* the user grants the microphone: one suspended startTuner resumes
MicGranted ==
  /\ pending > 0
  /\ Len(rafQueue) < MaxLoops
  /\ \E frame \in Frames : Becomes(StartTunerGranted(Cur, frame, NoPitch))

\* getUserMedia rejects: one suspended startTuner runs its catch block
MicDenied ==
  /\ pending > 0
  /\ Becomes(StartTunerDenied(Cur))

\* the browser runs the oldest scheduled detectPitch callback on a frame; at most
\* maxEstimates pitch estimations are tried after one resumption of startTuner
FrameCallback(frame, result, maxEstimates) ==
  /\ rafQueue # <<>>
  /\ WillEstimate(Cur, frame) => estimates < maxEstimates
  /\ Becomes(DetectPitch([Cur EXCEPT !.rafQueue = Tail(@),
                                     !.lastOp = "frame",
                                     !.out = NoOut],
                         frame, result))

AnimationFrame ==
  \E frame \in FramesFor(Cur) : \E result \in ResultsFor(Cur, frame, YinResults(Cur)) :
    FrameCallback(frame, result, MaxEstimates)

Next == ToggleTuner \/ KeyEscape \/ MicGranted \/ MicDenied \/ AnimationFrame

\* every interleaving of the user's start/stop events, the answers to the
\* microphone requests and the frame callbacks
Spec == Init /\ [][Next]_vars


---------------------------------------------------------------------------
(* SpecDetect: one start at a time (no click while a microphone request is   *)
(* pending), with results around the gate and the classification boundaries *)

\* results on the bounds and 12.5, 12.525, -37.5, -37.525, 37.525 and 0 cents off a string
DetectResults(s) ==
  LET strings == ComputeStrings(s.activeTuningKey, s.a4Reference)
      bounds == ComputeBounds(strings)
  IN  {NoPitch,
       Found(bounds.low, YinFoundAbove + 50),
       Found(bounds.high, YinFoundAbove + 50),
       Found(strings[1].freq + 12500, 1000),
       Found(strings[1].freq + 12525, 1000),
       Found(strings[2].freq - 37500, YinFoundAbove + 1),
       Found(strings[2].freq - 37525, YinFoundAbove + 1),
       Found(strings[6].freq + 37525, YinFoundAbove + 100),
       Found(strings[3].freq, 1000)}

CarefulToggle == pending = 0 /\ ToggleTuner

AnimationFrameDetect ==
  \E frame \in FramesFor(Cur) : \E result \in ResultsFor(Cur, frame, DetectResults(Cur)) :
    FrameCallback(frame, result, MaxEstimates)

NextDetect == CarefulToggle \/ KeyEscape \/ MicGranted \/ MicDenied \/ AnimationFrameDetect

SpecDetect == Init /\ [][NextDetect]_vars

---------------------------------------------------------------------------
(* SpecSmooth: one start at a time and, once detecting, one held note: every *)
(* frame is loud and yields the same pitch, up to MaxSmoothSteps frames      *)

\* held notes: -30, -7, 12.5 and 20 cents off a string
HeldNotes(s) ==
  LET strings == ComputeStrings(s.activeTuningKey, s.a4Reference)
  IN  {Found(strings[1].freq - 30000, 1000),
       Found(strings[2].freq - 7000, 1000),
       Found(strings[4].freq + 12500, 1000),
       Found(strings[6].freq + 20000, 1000)}

\* the cents updateUI computes for a result
CentsOf(s, r) ==
  Cents(r.frequency,
        FindClosestString(ComputeStrings(s.activeTuningKey, s.a4Reference), r.frequency).freq)

\* one note is held for a session: once a frame was accepted, the note is the one
\* that wrote the first entry of the pitch history; yinDetect may also miss it
HeldResults(s) ==
  {NoPitch} \cup
  (IF s.historyCount = 0 THEN HeldNotes(s)
   ELSE {r \in HeldNotes(s) :
           Smooth(RZero, CentsOf(s, r)) = HistoryAt(s.pitchHistory, 0)})

HeldFrames(s) ==
  IF s.isListening /\ ~s.isLearningNoise THEN {ToneFrame, ZeroFrame} ELSE FramesFor(s)

AnimationFrameHeld ==
  \E frame \in HeldFrames(Cur) : \E result \in ResultsFor(Cur, frame, HeldResults(Cur)) :
    FrameCallback(frame, result, MaxSmoothSteps)

NextSmooth == CarefulToggle \/ MicGranted \/ AnimationFrameHeld

SpecSmooth == Init /\ [][NextSmooth]_vars

---------------------------------------------------------------------------
(* SpecNC: learnFrame called on a NoiseCanceller of its own *)

\* const nc = new NoiseCanceller(fftSize), on the page as init() leaves it
InitNC == InitWith(NoSavedA4, "", NewNoiseCanceller)

NCMags == {ZeroMag, NoiseMag, [i \in Bins |-> 3]}

\* the spectra tried at the next call: any during the first MaxVaried calls, then
\* the spectrum of the call before
MagsFor == IF framesSeen < MaxVaried THEN NCMags ELSE {out.mag}

\* const done = nc.learnFrame(buffer); framesSeen counts the calls
LearnCall ==
  /\ framesSeen < MaxLearnCalls
  /\ \E mag \in MagsFor :
       LET r == LearnFrame(noiseCanceller, mag)
       IN  /\ noiseCanceller' = r.nc
           /\ out' = [NoOut EXCEPT !.learnFed = TRUE, !.learnDone = r.done, !.mag = mag]
  /\ lastOp' = "learnFrame"
  /\ framesSeen' = framesSeen + 1
  /\ UNCHANGED <<isListening, animFrameId, micStream, audioContext, timeDomainBuffer,
                 yinBuffer, isLearningNoise, smoothedCents, wasInTune, lockedString,
                 a4Reference, activeTuningKey, cachedStrings, cachedBounds, stringsDirty,
                 pitchHistory, historyIndex, historyCount, dom, pending, rafQueue,
                 estimates, prevAccepted, playingToneIndex, toneContext, toneTimeout,
                 toneTimers, savedA4, savedTuning, stopped>>

NextNC == LearnCall

SpecNC == InitNC /\ [][NextNC]_vars

---------------------------------------------------------------------------
(* SpecProcess: learnFrame and process called in any order on a NoiseCanceller
   of its own *)

\* the spectra tried at a call of process: once the profile is learned, a frame of
\* the noise and a louder one; before, the spectrum handed to learnFrame last
ProcessMags ==
  IF noiseCanceller.learned THEN {NoiseMag, [i \in Bins |-> 3]}
  ELSE IF noiseCanceller.learnFrames = <<>> THEN {NoiseMag}
  ELSE {noiseCanceller.learnFrames[Len(noiseCanceller.learnFrames)]}

\* const clean = nc.process(buffer); estimates counts the calls, out.mag is the
\* spectrum of the buffer and out.clean what is returned
ProcessCall ==
  /\ estimates < MaxProcessCalls
  /\ \E mag \in ProcessMags :
       /\ noiseCanceller' = Process(noiseCanceller, mag)
       /\ out' = [NoOut EXCEPT !.mag = mag, !.clean = ProcessReturn(noiseCanceller, mag)]
  /\ lastOp' = "process"
  /\ estimates' = estimates + 1
  /\ UNCHANGED <<isListening, animFrameId, micStream, audioContext, timeDomainBuffer,
                 yinBuffer, isLearningNoise, smoothedCents, wasInTune, lockedString,
                 a4Reference, activeTuningKey, cachedStrings, cachedBounds, stringsDirty,
                 pitchHistory, historyIndex, historyCount, dom, pending, rafQueue,
                 framesSeen, prevAccepted, playingToneIndex, toneContext, toneTimeout,
                 toneTimers, savedA4, savedTuning, stopped>>

NextProcess == LearnCall \/ ProcessCall

SpecProcess == InitNC /\ [][NextProcess]_vars

---------------------------------------------------------------------------
(* SpecYin: yinDetect called on a buffer; it zeroes yinBuffer first and keeps
   nothing else between calls, so one call is made on each buffer *)

\* all buffers of the length 2 * YinHalfLen over the sample values
RECURSIVE BuffersOf(_)
BuffersOf(len) ==
  IF len = 0 THEN {<<>>}
  ELSE {Append(b, x) : b \in BuffersOf(len - 1), x \in YinSamples}

\* one period of a wave of 12 samples
Wave == <<0, 1, 2, 2, 2, 1, 0, -1, -2, -2, -2, -1>>

\* len samples of the wave from a phase on
WaveBuffer(phase, len) == [k \in 1..len |-> Wave[((phase + k - 1) % 12) + 1]]

\* the buffers tried: every short buffer, the wave over 26 and 28 samples (its
\* period is the last lag, or the last but one) and silence of that length
YinBuffers ==
  BuffersOf(2 * YinHalfLen)
    \cup {WaveBuffer(phase, len) : phase \in 0..11, len \in {26, 28}}
    \cup {[k \in 1..26 |-> 0]}

\* const result = yinDetect(buffer, sampleRate)
YinCall ==
  /\ lastOp = "init"
  /\ \E buffer \in YinBuffers :
       out' = [NoOut EXCEPT !.buffer = buffer, !.yin = YinDetect(buffer, SampleRate)]
  /\ lastOp' = "yinDetect"
  /\ UNCHANGED <<isListening, animFrameId, micStream, audioContext, timeDomainBuffer,
                 yinBuffer, noiseCanceller, isLearningNoise, smoothedCents, wasInTune,
                 lockedString, a4Reference, activeTuningKey, cachedStrings, cachedBounds,
                 stringsDirty, pitchHistory, historyIndex, historyCount, dom, pending,
                 rafQueue, framesSeen, estimates, prevAccepted, playingToneIndex,
                 toneContext, toneTimeout, toneTimers, savedA4, savedTuning, stopped>>

NextYin == YinCall

SpecYin == Init /\ [][NextYin]_vars


---------------------------------------------------------------------------
(* SpecTuning: calibration, tuning selection and the string cache, on a page
   loaded with any stored calibration and tuning *)

\* what localStorage may hold of the calibration at load: nothing usable, or a
\* number inside the calibration range, at its ends, or one step beyond
PersistedA4 == {NoSavedA4, A4Min - 1, A4Min, A4Default, A4Max, A4Max + 1}

\* what localStorage may hold of the tuning at load: nothing, a key, no key
PersistedTunings == {"", "dropD", "bogus"}

InitStored ==
  \E a4Stored \in PersistedA4 : \E keyStored \in PersistedTunings :
    InitWith(a4Stored, keyStored, NULL)

\* a4DownBtn click: setA4(a4Reference - 1)
A4Down == LET s == SetA4(Cur, a4Reference - 1) IN Becomes(s)

\* a4UpBtn click: setA4(a4Reference + 1)
A4Up == LET s == SetA4(Cur, a4Reference + 1) IN Becomes(s)

\* setA4(value) called with any value
A4Inputs == {400, A4Min - 1, A4Min, A4Min + 1, A4Default, A4Max, A4Max + 1, 450}
SetA4Call == \E value \in A4Inputs : LET s == SetA4(Cur, value) IN Becomes(s)

\* tuningSelect change, or selectTuning(key) with a key TUNINGS does not have
TuningChange ==
  \E key \in TuningKeys \cup {"bogus"} : LET s == SelectTuning(Cur, key) IN Becomes(s)

\* getActiveStrings() called
GetActiveStringsCall ==
  LET s == GetActiveStrings(Cur)
  IN  Becomes([s EXCEPT !.lastOp = "getActiveStrings", !.out = NoOut])

\* getFrequencyBounds() called
GetFrequencyBoundsCall ==
  LET s == GetFrequencyBounds(Cur)
  IN  Becomes([s EXCEPT !.lastOp = "getFrequencyBounds", !.out = NoOut])

\* frequencies around the strings of state s: each string, the middle between
\* neighbours and one millicent to each side of it, the bounds and one millicent
\* inside them
ProbeFreqs(s) ==
  LET strings == ComputeStrings(s.activeTuningKey, s.a4Reference)
      bounds == ComputeBounds(strings)
      mid(i) == (strings[i].freq + strings[i + 1].freq) \div 2
  IN  {strings[i].freq : i \in DOMAIN strings}
        \cup UNION {{mid(i) - 1, mid(i), mid(i) + 1} : i \in 1..(Len(strings) - 1)}
        \cup {bounds.low, bounds.low + 1, bounds.high - 1, bounds.high}

\* findClosestString(freq) called
FindClosestCall ==
  \E freq \in ProbeFreqs(Cur) :
    LET s == GetActiveStrings(Cur)
    IN  Becomes([s EXCEPT !.lastOp = "findClosestString",
                          !.out = [NoOut EXCEPT !.arg = freq,
                                                !.found = FindClosestString(s.cachedStrings, freq)]])

NextTuning ==
  \/ A4Down \/ A4Up \/ SetA4Call \/ TuningChange
  \/ GetActiveStringsCall \/ GetFrequencyBoundsCall \/ FindClosestCall

SpecTuning == InitStored /\ [][NextTuning]_vars

---------------------------------------------------------------------------
(* SpecStrings: the string buttons, the number keys, the tuning selector and the
   reference tone, with no session running *)

\* a click on one of the string buttons, beside its tone trigger
ClickStringIn(buttons) == \E i \in buttons : LET s == StringClick(Cur, i) IN Becomes(s)

\* a click on the tone trigger of a string button
ClickToneTrigger == \E i \in 0..5 : LET s == ToneTriggerClick(Cur, i) IN Becomes(s)

\* one of the number keys
PressNumberKeyIn(keys) == \E key \in keys : LET s == NumberKey(Cur, key) IN Becomes(s)

\* tuningSelect change to one of the options, which are keys of TUNINGS
TuningSelectIn(keys) == \E key \in keys : LET s == SelectTuning(Cur, key) IN Becomes(s)

\* a timer playReferenceTone set fires: stopReferenceTone(); arg is its id
ToneEnds ==
  \E id \in toneTimers :
    Becomes([StopReferenceTone([Cur EXCEPT !.toneTimers = @ \ {id}]) EXCEPT
               !.lastOp = "toneEnds", !.out = [NoOut EXCEPT !.arg = id]])

ClickString == ClickStringIn(0..5)
PressNumberKey == PressNumberKeyIn(1..6)
TuningSelect == TuningSelectIn(TuningKeys)

NextStrings ==
  ClickString \/ ClickToneTrigger \/ PressNumberKey \/ TuningSelect \/ ToneEnds

SpecStrings == Init /\ [][NextStrings]_vars

---------------------------------------------------------------------------
(* SpecLock: a session during which strings are locked and the tuning changes *)

\* the buttons, keys and tunings used during the session: the lowest and the
\* highest string by button, the highest and the third by key
LockButtons == {0, 5}
LockKeys == {1, 4}
LockTunings == {"standard", "openG"}

ClickStringSome == ClickStringIn(LockButtons)
PressNumberKeySome == PressNumberKeyIn(LockKeys)
TuningSelectSome == TuningSelectIn(LockTunings)

\* results placed relative to the current strings: none, a pitch 12.5 cents above
\* the lowest string, the pitch exactly between the third and the fourth string
LockResults(s) ==
  LET strings == ComputeStrings(s.activeTuningKey, s.a4Reference)
  IN  {NoPitch,
       Found(strings[1].freq + 12500, 1000),
       Found((strings[3].freq + strings[4].freq) \div 2, YinFoundAbove + 1)}

\* one steady loud background
LockFrames(s) == {LoudFrame}

AnimationFrameLock ==
  \E frame \in LockFrames(Cur) : \E result \in ResultsFor(Cur, frame, LockResults(Cur)) :
    FrameCallback(frame, result, MaxEstimates)

NextLock ==
  \/ CarefulToggle \/ MicGranted \/ AnimationFrameLock
  \/ ClickStringSome \/ PressNumberKeySome \/ TuningSelectSome

SpecLock == Init /\ [][NextLock]_vars

---------------------------------------------------------------------------
(* SpecRetarget: a session during which the calibration, the tuning and the
   string lock change *)

\* the calibrations moved between with the A4 buttons, the string button clicked
\* and the number key pressed
RetargetA4 == {A4Default, A4Default + 1}
RetargetButtons == {0}
RetargetKeys == {6}

\* a4UpBtn and a4DownBtn clicks within RetargetA4
A4UpSome == a4Reference + 1 \in RetargetA4 /\ A4Up
A4DownSome == a4Reference - 1 \in RetargetA4 /\ A4Down

ClickStringRetarget == ClickStringIn(RetargetButtons)
PressNumberKeyRetarget == PressNumberKeyIn(RetargetKeys)

NextRetarget ==
  \/ CarefulToggle \/ MicGranted \/ AnimationFrameLock
  \/ A4UpSome \/ A4DownSome \/ TuningSelectSome
  \/ ClickStringRetarget \/ PressNumberKeyRetarget

SpecRetarget == Init /\ [][NextRetarget]_vars

---------------------------------------------------------------------------
(* SpecTone: the reference tone: lock clicks, tone triggers, direct calls of
   playReferenceTone and stopReferenceTone, sessions stopped, and the tone timer,
   which the browser fires if it stays pending *)

\* the indices playReferenceTone is called with: below the range, in it, above it
ToneIndices == {-1, 2, 6}

\* playReferenceTone(index) called
PlayToneCall ==
  \E index \in ToneIndices :
    Becomes([PlayReferenceTone(Cur, index) EXCEPT
               !.lastOp = "playReferenceTone", !.out = [NoOut EXCEPT !.arg = index]])

\* stopReferenceTone() called
StopToneCall ==
  Becomes([StopReferenceTone(Cur) EXCEPT !.lastOp = "stopReferenceTone", !.out = NoOut])

NextTone ==
  \/ ClickString \/ ClickToneTrigger \/ PlayToneCall \/ StopToneCall
  \/ CarefulToggle \/ MicGranted \/ KeyEscape \/ ToneEnds

SpecTone == Init /\ [][NextTone]_vars /\ WF_vars(ToneEnds)

---------------------------------------------------------------------------
(* Properties *)

\* a detectPitch pass ran in the step just taken from a frame callback
FramePassed == lastOp = "frame" /\ out.ran

\* the bounds of the current tuning and calibration, computed afresh
CurBounds == ComputeBounds(ComputeStrings(activeTuningKey, a4Reference))

\* the cents of the estimate of the last pass against its target string
OutCents == CentsOf(Cur, out)

\* Math.round(confidence * 100), confidence in thousandths
Pct(confidence) == (confidence + 5) \div 10

\* what updateUI writes: the tuning feedback
Feedback ==
  <<smoothedCents, wasInTune, pitchHistory, historyIndex, historyCount,
    dom.detectedNote, dom.detectedOctave, dom.statusText, dom.statusClass>>

\* the confidence display
ConfidenceDisplay == <<dom.confidenceWidth, dom.confidenceColor, dom.confidenceLabel>>

\* C1: the session state changes only along Idle -> Learning (startTuner resumes
\* with the microphone), Learning -> Detecting (learnFrame reports completion) and
\* any state -> Idle (stopTuner); never Detecting -> Learning, never Idle -> Detecting.
C1_Transitions ==
  [][ \/ SessionState' = SessionState
      \/ /\ SessionState = "Idle" /\ SessionState' = "Learning"
         /\ lastOp' = "granted"
      \/ /\ SessionState = "Learning" /\ SessionState' = "Detecting"
         /\ out'.learnDone
      \/ /\ SessionState' = "Idle"
         /\ lastOp' = "stopTuner" ]_vars

\* C2: after stopTuner the session is Idle and all session-scoped state is
\* discarded: not listening, no canceller, not learning, smoothedCents 0, wasInTune
\* false, buffers released, confidence display reset, no frame callback scheduled.
C2_StopDiscards ==
  lastOp = "stopTuner" =>
    /\ ~isListening
    /\ noiseCanceller = NULL
    /\ ~isLearningNoise
    /\ smoothedCents = RZero
    /\ ~wasInTune
    /\ ~timeDomainBuffer /\ ~yinBuffer
    /\ ConfidenceDisplay = <<0, "text-dim", NULL>>
    /\ rafQueue = <<>>

\* C3: while Detecting, an estimate is accepted (updateUI runs) exactly if
\* bounds.low < frequency < bounds.high and confidence >= 0.85; a rejected estimate
\* leaves the tuning feedback unchanged and changes at most the confidence display.
C3_Gate ==
  [][ out'.estimated =>
        /\ out'.accepted <=>
             /\ CurBounds'.low < out'.frequency
             /\ out'.frequency < CurBounds'.high
             /\ out'.confidence >= MIN_CONFIDENCE
        /\ ~out'.accepted =>
             /\ Feedback' = Feedback
             /\ dom'.btnListening = dom.btnListening
             /\ prevAccepted' = prevAccepted ]_vars

\* C3: an estimate with enough confidence, exactly on the lower bound, was rejected
C3_Witness ==
  /\ FramePassed /\ out.phase = "Detecting"
  /\ out.estimated /\ ~out.accepted
  /\ out.frequency = CurBounds.low
  /\ out.confidence >= MIN_CONFIDENCE

\* C4: a frame callback on a silent frame (rms < 0.008) runs no pitch estimation
\* and leaves smoothedCents, wasInTune and the pitch history unchanged; it feeds
\* learnFrame while Learning and otherwise changes nothing but the scheduled callback.
C4_SilentFrame ==
  [][ lastOp' = "frame" /\ out'.ran /\ out'.silent =>
        /\ ~out'.estimated /\ ~out'.reported /\ ~out'.accepted /\ ~out'.vibrated
        /\ estimates' = estimates
        /\ Feedback[1] = Feedback'[1] /\ Feedback[2] = Feedback'[2]
        /\ Feedback[3] = Feedback'[3] /\ Feedback[4] = Feedback'[4]
        /\ Feedback[5] = Feedback'[5]
        /\ out'.learnFed <=> out'.phase = "Learning"
        /\ out'.phase # "Learning" =>
             UNCHANGED <<isListening, micStream, audioContext, timeDomainBuffer, yinBuffer,
                         noiseCanceller, isLearningNoise, smoothedCents, wasInTune,
                         lockedString, a4Reference, activeTuningKey, cachedStrings,
                         cachedBounds, stringsDirty, pitchHistory, historyIndex,
                         historyCount, dom, pending>> ]_vars

\* C4: a silent frame arrived while Detecting, after frames had been accepted
C4_Witness ==
  /\ FramePassed /\ out.silent
  /\ out.phase = "Detecting"
  /\ smoothedCents # RZero
  /\ historyCount > 0

\* C5: every frame received while Learning is fed to learnFrame, runs no pitch
\* estimation and is not accepted, and learning completes on exactly the 20th
\* frame received since the session left Idle.
C5_LearningFrames ==
  out.ran /\ out.phase = "Learning" =>
    /\ out.learnFed
    /\ ~out.estimated /\ ~out.reported /\ ~out.accepted
    /\ out.learnDone <=> framesSeen = LearnTarget

\* C6: on a fresh NoiseCanceller, calls 1 to 19 of learnFrame return false and
\* accumulate the spectrum; the 20th call returns true, leaves as noise profile the
\* per-bin average of the 20 spectra handed in, and empties the accumulator.
C6_LearnFrame ==
  [][ lastOp' = "learnFrame" /\ framesSeen' <= LearnTarget =>
        IF framesSeen' < LearnTarget
        THEN /\ ~out'.learnDone
             /\ ~noiseCanceller'.learned
             /\ noiseCanceller'.learnFrames = Append(noiseCanceller.learnFrames, out'.mag)
             /\ Len(noiseCanceller'.learnFrames) = framesSeen'
        ELSE /\ out'.learnDone
             /\ noiseCanceller'.learned
             /\ noiseCanceller'.learnFrames = <<>>
             /\ Len(noiseCanceller.learnFrames) = LearnTarget - 1
             /\ \A i \in Bins :
                  RMul(RInt(LearnTarget), noiseCanceller'.noiseProfile[i])
                    = RInt(SumBin(Append(noiseCanceller.learnFrames, out'.mag), i, 1)) ]_vars

\* C6: the 20th call has returned true on spectra that were not all the same
C6_Witness ==
  /\ lastOp = "learnFrame" /\ framesSeen = LearnTarget
  /\ out.learnDone /\ noiseCanceller.learned
  /\ \E i \in Bins : noiseCanceller.noiseProfile[i].d # 1

\* C7 as stated: while Detecting, every frame received reports a confidence value.
C7_EveryFrame == out.ran /\ out.phase = "Detecting" => out.reported

\* C7: while Detecting, every frame that is not silent reports the confidence of
\* its estimate (0 for a no-pitch result), accepted or not; a silent frame reports
\* none and leaves the confidence display as it was.
C7_ConfidenceReported ==
  [][ out'.ran /\ out'.phase = "Detecting" =>
        IF out'.silent
        THEN ~out'.reported /\ ConfidenceDisplay' = ConfidenceDisplay
        ELSE /\ out'.reported /\ out'.estimated
             /\ dom'.confidenceWidth = Pct(out'.confidence)
             /\ dom'.confidenceLabel = <<Pct(out'.confidence)>>
             /\ out'.frequency = NoFreq =>
                  out'.confidence = 0 /\ dom'.confidenceLabel = <<0>> ]_vars

\* C7: a no-pitch result on a frame that is not silent was reported as 0
C7_Witness ==
  /\ FramePassed /\ out.phase = "Detecting" /\ ~out.silent
  /\ out.reported /\ ~out.accepted
  /\ out.frequency = NoFreq
  /\ dom.confidenceLabel = <<0>>

RECURSIVE Pow(_, _)
Pow(b, k) == IF k = 0 THEN 1 ELSE b * Pow(b, k - 1)

\* C8: an accepted frame moves smoothedCents to 0.6 * smoothedCents + 0.4 * cents
\* (the distance to cents shrinks by 0.6) and nothing but stopTuner changes it
\* otherwise; with one note held from the start, after k accepted frames
\* smoothedCents = C - C * 0.6^k, within 1% of C from the 10th on.
C8_Smoothing ==
  [][ /\ out'.accepted =>
           \A cents \in {OutCents'} : \A before \in {smoothedCents} :
             \A after \in {smoothedCents'} :
               /\ RSub(after, cents) = RMul(Rat(6, 10), RSub(before, cents))
               /\ RSub(cents, after)
                    = RMul(cents, Rat(Pow(3, historyCount'), Pow(5, historyCount')))
               /\ historyCount' >= 10 =>
                    RLe(RAbs(RSub(cents, after)), RMul(RAbs(cents), Rat(1, 100)))
      /\ ~out'.accepted /\ lastOp' # "stopTuner" => smoothedCents' = smoothedCents ]_vars

\* C8: the 10th accepted frame of a held note that is off its string
C8_Witness ==
  /\ FramePassed /\ out.accepted
  /\ historyCount >= 10
  /\ OutCents # RZero
  /\ smoothedCents # OutCents

\* C9: after an accepted frame the status is In-Tune if |smoothedCents| <= 5, Close
\* if 5 < |smoothedCents| <= 15 and Far beyond; Close and Far say tune up for a
\* negative value and tune down otherwise.
C9_Classification ==
  out.accepted =>
    LET a == RAbs(smoothedCents)
        neg == RLt(smoothedCents, RZero)
    IN  /\ RLe(a, RInt(5)) =>
             dom.statusClass = "in-tune" /\ dom.statusText = "In Tune!"
        /\ RLt(RInt(5), a) /\ RLe(a, RInt(15)) =>
             /\ dom.statusClass = "close"
             /\ dom.statusText = IF neg THEN "Almost - tune up slightly"
                                 ELSE "Almost - tune down slightly"
        /\ RLt(RInt(15), a) =>
             /\ dom.statusClass = IF neg THEN "flat" ELSE "sharp"
             /\ dom.statusText = IF neg THEN "Tune Up" ELSE "Tune Down"

\* C9: an accepted frame left smoothedCents at exactly -15
C9_Witness ==
  /\ FramePassed /\ out.accepted
  /\ smoothedCents = RInt(-15)
  /\ dom.statusClass = "close"

\* C10: a detectPitch pass vibrates exactly when its frame is accepted, is In-Tune,
\* and the previous accepted frame since the session left Idle was not In-Tune or
\* there was none.
C10_InTuneEdge ==
  [][ out'.ran =>
        (out'.vibrated <=>
           /\ out'.accepted
           /\ RLe(RAbs(smoothedCents'), RInt(5))
           /\ prevAccepted # "inTune") ]_vars

\* the strings of the current tuning and calibration, computed afresh
CurStrings == ComputeStrings(activeTuningKey, a4Reference)

\* C11: after setA4(v) the reference is v clamped into [432, 446]: 446 for a v
\* above, 432 for a v below, v itself otherwise; the clamped value is persisted.
C11_SetA4Clamps ==
  lastOp = "setA4" =>
    /\ a4Reference = (IF out.arg > 446 THEN 446 ELSE IF out.arg < 432 THEN 432 ELSE out.arg)
    /\ out.arg = 450 => a4Reference = 446
    /\ out.arg = 400 => a4Reference = 432
    /\ savedA4 = a4Reference

\* C11: setA4(450) left the reference at 446
C11_Witness == lastOp = "setA4" /\ out.arg = 450 /\ a4Reference = 446

C13_CacheFresh ==
  /\ GetActiveStrings(Cur).cachedStrings = CurStrings
  /\ \A i \in DOMAIN CurStrings :
       CurStrings[i].freq
         = StringFreq(a4Reference, TUNINGS[activeTuningKey][i].semi)
  /\ (~stringsDirty /\ cachedStrings # NULL) => cachedStrings = CurStrings

\* C13: getActiveStrings was called after both the reference and the tuning changed
C13_Witness ==
  /\ lastOp = "getActiveStrings"
  /\ activeTuningKey = "openG"
  /\ a4Reference = A4Min + 1

\* C14: getFrequencyBounds returns low = the lowest current string an octave down
\* and high = the highest an octave up, so every current string lies strictly
\* inside; cached bounds are never those of another tuning or calibration.
C14_Bounds ==
  LET b == GetFrequencyBounds(Cur).cachedBounds
  IN  /\ \E i \in DOMAIN CurStrings :
           /\ b.low = CurStrings[i].freq - Octave
           /\ \A j \in DOMAIN CurStrings : CurStrings[i].freq <= CurStrings[j].freq
      /\ \E i \in DOMAIN CurStrings :
           /\ b.high = CurStrings[i].freq + Octave
           /\ \A j \in DOMAIN CurStrings : CurStrings[i].freq >= CurStrings[j].freq
      /\ \A i \in DOMAIN CurStrings :
           b.low < CurStrings[i].freq /\ CurStrings[i].freq < b.high
      /\ (~stringsDirty /\ cachedBounds # NULL) => cachedBounds = b

\* C14: getFrequencyBounds was called after both the reference and the tuning changed
C14_Witness ==
  /\ lastOp = "getFrequencyBounds"
  /\ activeTuningKey = "halfStepDown"
  /\ a4Reference = A4Max - 1

\* the distance of the probed frequency to current string j, in millicents
ProbeDist(j) == Abs(out.arg - CurStrings[j].freq)

\* C15: findClosestString(f) returns a current string to which no other is strictly
\* nearer in cents, and of several at that distance the first in profile order.
C15_Closest ==
  lastOp = "findClosestString" =>
    \E k \in DOMAIN CurStrings :
      /\ out.found = CurStrings[k]
      /\ \A j \in DOMAIN CurStrings : ProbeDist(k) <= ProbeDist(j)
      /\ \A j \in 1..(k - 1) : ProbeDist(j) > ProbeDist(k)

\* C15: a frequency exactly between two strings, the lower one returned
C15_Witness ==
  /\ lastOp = "findClosestString"
  /\ \E j \in DOMAIN CurStrings : \E k \in DOMAIN CurStrings :
       /\ j < k
       /\ ProbeDist(j) = ProbeDist(k)
       /\ out.found = CurStrings[j]
  /\ CurBounds.low < out.arg /\ out.arg < CurBounds.high

\* the distance of the estimate of the last pass to the j-th current string
EstimateDist(j) == Abs(out.frequency - CurStrings[j].freq)

\* C16: on every accepted frame the target is the locked string if a lock is set,
\* even if another string is nearer, and the nearest current string otherwise; the
\* note shown is the target's and the cents fed to the smoothing are measured
\* against the target.
C16_Target ==
  [][ out'.accepted =>
        \E k \in DOMAIN CurStrings :
          /\ IF lockedString # NoLock THEN k = lockedString + 1
             ELSE \A j \in DOMAIN CurStrings : EstimateDist(k)' <= EstimateDist(j)'
          /\ dom'.detectedNote = CurStrings[k].name
          /\ dom'.detectedOctave = <<CurStrings[k].octave>>
          /\ LET cents == Rat(out'.frequency - CurStrings[k].freq, 1000)
             IN  RSub(smoothedCents', cents) = RMul(Rat(6, 10), RSub(smoothedCents, cents))
    ]_vars

\* C16: an accepted frame while a string is locked and another string is nearer
C16_Witness ==
  /\ FramePassed /\ out.accepted
  /\ lockedString # NoLock
  /\ \E j \in DOMAIN CurStrings : EstimateDist(j) < EstimateDist(lockedString + 1)
  /\ dom.detectedNote = CurStrings[lockedString + 1].name
  /\ dom.detectedOctave = <<CurStrings[lockedString + 1].octave>>

\* the operations that may change the lock
LockOps == {"stringClick", "numberKey", "selectTuning"}

\* C17: the lock is none or an index 0..5 of a string of the active tuning; a click
\* on button i, or the number key of string i (key 6 - i), locks i alone if i was
\* not locked and returns to no lock if it was; selecting a tuning clears the lock;
\* nothing else changes it.
C17_Lock ==
  [][ /\ lockedString' \in {NoLock} \cup 0..5
      /\ lockedString' # NoLock => lockedString' + 1 \in DOMAIN CurStrings'
      /\ lastOp' = "stringClick" =>
           lockedString' = (IF lockedString = out'.arg THEN NoLock ELSE out'.arg)
      /\ lastOp' = "numberKey" =>
           lockedString' = (IF lockedString = 6 - out'.arg THEN NoLock ELSE 6 - out'.arg)
      /\ lastOp' = "selectTuning" => lockedString' = NoLock
      /\ lastOp' \notin LockOps => lockedString' = lockedString
    ]_vars

\* C17: key 1 locked the highest string of a tuning that was selected before,
\* while the tone of another string, locked by a click before, still sounds
C17_Witness ==
  /\ lastOp = "numberKey" /\ out.arg = 1
  /\ lockedString = 5
  /\ activeTuningKey # "standard"
  /\ playingToneIndex \in 0..4

\* what a session consists of: the listening state, the learner, the microphone and
\* audio objects, the scheduled callbacks
SessionParts ==
  <<isListening, isLearningNoise, noiseCanceller, micStream, audioContext,
    timeDomainBuffer, yinBuffer, rafQueue, animFrameId>>

\* C18: when getUserMedia rejects, startTuner changes nothing of the session (not
\* listening stays not listening, no learner is created, no callback is scheduled)
\* and reports "Microphone access denied"; the rejected request is not made again:
\* a request is added only by a call of startTuner, and Idle is left only when a
\* pending request is granted.
C18_Denied ==
  [][ /\ lastOp' = "denied" =>
           /\ SessionParts' = SessionParts
           /\ SessionState = "Idle" =>
                /\ SessionState' = "Idle"
                /\ ~isListening' /\ noiseCanceller' = NULL
           /\ pending' = pending - 1
           /\ dom'.statusText = "Microphone access denied"
           /\ dom'.statusClass = "flat"
      /\ pending' > pending => lastOp' = "startTuner" /\ pending' = pending + 1
      /\ SessionState = "Idle" /\ SessionState' # "Idle" =>
           lastOp' = "granted" /\ pending > 0
    ]_vars

\* C18: the only microphone request was rejected in Idle
C18_Witness ==
  /\ lastOp = "denied"
  /\ pending = 0
  /\ ~isListening /\ noiseCanceller = NULL /\ rafQueue = <<>>
  /\ dom.statusText = "Microphone access denied"
  /\ ~dom.btnListening

\* C19: startTuner, when the microphone is granted, puts the session in Learning
\* with a new learner (no profile, not learned) that holds nothing but the frame of
\* the first pass; while Learning the learner grows by the frame of each pass and by
\* nothing else; Detecting is entered only by the pass that hands in the 20th frame,
\* with the average of these 20 frames as profile. This holds for a start after
\* stopTuner as for the first start.
C19_Relearn ==
  [][ /\ lastOp' = "granted" =>
           /\ SessionState' = "Learning"
           /\ out'.learnFed
           /\ noiseCanceller' = [noiseProfile |-> NULL, learnFrames |-> <<out'.mag>>,
                                 learned |-> FALSE, prevMag |-> NULL]
      /\ SessionState' = "Learning" /\ lastOp' # "granted" =>
           /\ SessionState = "Learning"
           /\ noiseCanceller'.noiseProfile = NULL /\ ~noiseCanceller'.learned
           /\ noiseCanceller'.learnFrames # noiseCanceller.learnFrames =>
                noiseCanceller'.learnFrames = Append(noiseCanceller.learnFrames, out'.mag)
      /\ SessionState # "Detecting" /\ SessionState' = "Detecting" =>
           /\ SessionState = "Learning"
           /\ Len(noiseCanceller.learnFrames) = LearnTarget - 1
           /\ noiseCanceller'.learned /\ noiseCanceller'.learnFrames = <<>>
           /\ \A i \in Bins :
                RMul(RInt(LearnTarget), noiseCanceller'.noiseProfile[i])
                  = RInt(SumBin(Append(noiseCanceller.learnFrames, out'.mag), i, 1))
    ]_vars

\* C19: a session started after a stopTuner has just reached Detecting, 20 frames
\* after its start
C19_Witness ==
  /\ stopped
  /\ FramePassed /\ out.learnDone
  /\ SessionState = "Detecting"
  /\ framesSeen = LearnTarget

\* C20: at most one detectPitch callback is scheduled at any time.
C20_OneCallback == Len(rafQueue) <= 1

\* C21: when startTuner has completed and set isListening, smoothedCents is 0,
\* wasInTune is false and the pitch history is empty.
C21_CleanStart ==
  lastOp = "granted" =>
    /\ smoothedCents = RZero
    /\ ~wasInTune
    /\ historyCount = 0 /\ historyIndex = 0 /\ pitchHistory = EmptyHistory

\* C22: once a NoiseCanceller has learned, it stays learned and no call of
\* learnFrame or of process changes its noiseProfile; a learnFrame call on it
\* returns true and accumulates nothing.
C22_ProfileImmutable ==
  [][ noiseCanceller.learned =>
        /\ noiseCanceller'.learned
        /\ noiseCanceller'.noiseProfile = noiseCanceller.noiseProfile
        /\ noiseCanceller'.learnFrames = <<>>
        /\ lastOp' = "learnFrame" => out'.learnDone /\ noiseCanceller' = noiseCanceller
    ]_vars

\* C22: a learned canceller has processed frames of different spectra and was
\* then handed another frame to learn
C22_Witness ==
  /\ noiseCanceller.learned
  /\ lastOp = "learnFrame" /\ framesSeen > LearnTarget
  /\ estimates >= 2
  /\ noiseCanceller.prevMag # NULL
  /\ \E i \in Bins : noiseCanceller.noiseProfile[i] # RZero

\* C23: on a canceller that has not learned, process returns the buffer handed in
\* and changes nothing (prevMag stays unset); a session that is Detecting has a
\* canceller that has learned, so every pitch estimation runs on a frame cleaned
\* with the learned profile.
C23_NoPassthrough ==
  [][ /\ noiseCanceller # NULL /\ ~noiseCanceller.learned =>
           /\ noiseCanceller.prevMag = NULL /\ noiseCanceller.noiseProfile = NULL
           /\ \A mag \in NCMags :
                /\ Process(noiseCanceller, mag) = noiseCanceller
                /\ ProcessReturn(noiseCanceller, mag) = [i \in Bins |-> RInt(mag[i])]
           /\ lastOp' = "process" =>
                /\ noiseCanceller' = noiseCanceller
                /\ out'.clean = [i \in Bins |-> RInt(out'.mag[i])]
      /\ SessionState' = "Detecting" =>
           /\ noiseCanceller' # NULL
           /\ noiseCanceller'.learned /\ noiseCanceller'.noiseProfile # NULL
      /\ out'.estimated =>
           /\ noiseCanceller # NULL /\ noiseCanceller.learned
           /\ noiseCanceller'.noiseProfile = noiseCanceller.noiseProfile
           /\ noiseCanceller'.prevMag # NULL
    ]_vars

\* C23: a pitch estimation has run in a session, on a frame cleaned with a profile
\* that is not zero
C23_Witness ==
  /\ FramePassed /\ out.estimated
  /\ SessionState = "Detecting"
  /\ noiseCanceller.learned /\ noiseCanceller.prevMag # NULL
  /\ \E i \in Bins : noiseCanceller.noiseProfile[i] # RZero

\* a rational that is not negative
RNonNeg(a) == a.n >= 0 /\ a.d > 0

\* C24: the noiseProfile of a learned canceller has halfSize + 1 entries, none
\* negative; after a process call on it no subtracted magnitude
\* max(mag - 2 * noise, 0.002 * mag), no cleaned magnitude and no prevMag entry is
\* negative.
C24_NonNegative ==
  noiseCanceller.learned =>
    /\ DOMAIN noiseCanceller.noiseProfile = 1..(HalfSize + 1)
    /\ \A i \in Bins : RNonNeg(noiseCanceller.noiseProfile[i])
    /\ noiseCanceller.prevMag # NULL =>
         /\ DOMAIN noiseCanceller.prevMag = 1..(HalfSize + 1)
         /\ \A i \in Bins : RNonNeg(noiseCanceller.prevMag[i])
    /\ lastOp = "process" =>
         /\ noiseCanceller.prevMag = out.clean
         /\ \A i \in Bins :
              /\ RNonNeg(out.clean[i])
              /\ RNonNeg(RMax(RSub(RInt(out.mag[i]), RMul(RInt(2), noiseCanceller.noiseProfile[i])),
                              RMul(Rat(2, 1000), RInt(out.mag[i]))))

\* C24: process has run on a frame that is, in some bin, below twice the noise
\* learned, so that the floor 0.002 * mag was taken
C24_Witness ==
  /\ noiseCanceller.learned /\ lastOp = "process"
  /\ \E i \in Bins :
       /\ out.mag[i] > 0
       /\ RLt(RInt(out.mag[i]), RMul(RInt(2), noiseCanceller.noiseProfile[i]))
       /\ out.clean[i].n > 0

\* the lags 2 .. halfLen - 1 whose normalized difference, in the yinBuffer the
\* last call of yinDetect left, is below the threshold
LagsBelow ==
  {tau \in 2..(Len(out.yin.yinBuffer) - 1) : FLt(out.yin.yinBuffer[tau + 1], YinThreshold)}

\* the first of them
FirstLagBelow == CHOOSE tau \in LagsBelow : \A other \in LagsBelow : tau <= other

\* C25: if no lag in 2 .. halfLen - 1 has a normalized difference below 0.15,
\* yinDetect returns frequency -1 and confidence 0, which the gate of detectPitch
\* does not let pass; otherwise tauEstimate is reached from the first such lag by
\* advancing while the next value is strictly smaller, and it is the lag used: the
\* confidence is 1 - yinBuffer[tauEstimate] and the frequency is the sample rate
\* divided by a lag within half a sample of tauEstimate.
C25_Selection ==
  lastOp = "yinDetect" =>
    \A yb \in {out.yin.yinBuffer} : \A te \in {out.yin.tauEstimate} :
      IF LagsBelow = {}
      THEN /\ te = -1
           /\ out.yin.frequency = RInt(-1) /\ out.yin.confidence = RZero
           /\ ~Gate(NoPitch, CurBounds)
      ELSE /\ te >= FirstLagBelow /\ te < Len(yb)
           /\ \A k \in FirstLagBelow..(te - 1) : FLt(yb[k + 2], yb[k + 1])
           /\ te + 1 < Len(yb) => ~FLt(yb[te + 2], yb[te + 1])
           /\ out.yin.confidence = RSub(RInt(1), yb[te + 1])
           /\ IsFinite(out.yin.betterTau)
           /\ RLe(RAbs(RSub(out.yin.betterTau, RInt(te))), Rat(1, 2))
           /\ IsFinite(out.yin.frequency) /\ out.yin.frequency.n > 0
           /\ RDiv(RInt(SampleRate), out.yin.frequency) = out.yin.betterTau

\* C25: the first lag below the threshold was not the minimum of its dip:
\* yinDetect advanced and refined the lag it reached between its neighbours
C25_Witness ==
  /\ lastOp = "yinDetect"
  /\ LagsBelow # {}
  /\ out.yin.tauEstimate > FirstLagBelow
  /\ out.yin.tauEstimate + 1 < Len(out.yin.yinBuffer)
  /\ out.yin.betterTau # RInt(out.yin.tauEstimate)

\* the buffer of the last call of yinDetect is all zero
ZeroBuffer == \A k \in DOMAIN out.buffer : out.buffer[k] = 0

\* C26: on an all-zero buffer yinDetect returns frequency -1 and confidence 0: the
\* normalized differences are all NaN (0 times tau / 0) and none is below the
\* threshold.
C26_ZeroFrame ==
  lastOp = "yinDetect" /\ ZeroBuffer =>
    /\ out.yin.frequency = RInt(-1)
    /\ out.yin.confidence = RZero
    /\ out.yin.tauEstimate = -1
    /\ \A tau \in 1..(Len(out.yin.yinBuffer) - 1) : out.yin.yinBuffer[tau + 1] = NaN

\* C26: yinDetect has run on 26 samples of silence
C26_Witness ==
  /\ lastOp = "yinDetect" /\ ZeroBuffer
  /\ Len(out.buffer) = 26
  /\ out.yin.frequency = RInt(-1)


\* the denominator of the parabola through the lags around tauEstimate
Denominator(yb, tauEstimate) ==
  RSub(RSub(RMul(RInt(2), yb[tauEstimate + 1]), yb[tauEstimate + 2]), yb[tauEstimate])

\* tauEstimate is the last lag of the buffer: x2 === tauEstimate
AtUpperEdge == out.yin.tauEstimate + 1 = Len(out.yin.yinBuffer)

\* C27: whenever yinDetect finds a pitch the refinement divides by no zero
\* denominator: between the edges 2*s1 - s2 - s0 is finite and not zero, at
\* the upper edge the refined lag is the integer estimate, and in both cases
\* the refined lag and the returned frequency are finite and positive.
C27_Refinement ==
  lastOp = "yinDetect" /\ out.yin.tauEstimate # -1 =>
    \A yb \in {out.yin.yinBuffer} : \A t \in {out.yin.tauEstimate} :
      /\ t >= 2 /\ t < Len(yb)
      /\ IsFinite(yb[t]) /\ IsFinite(yb[t + 1])
      /\ IF ~AtUpperEdge
         THEN /\ IsFinite(yb[t + 2])
              /\ Denominator(yb, t) # RZero
              /\ out.yin.betterTau =
                   RAdd(RInt(t), RDiv(RSub(yb[t + 2], yb[t]),
                                      RMul(RInt(2), Denominator(yb, t))))
         ELSE out.yin.betterTau = RInt(t)
      /\ IsFinite(out.yin.betterTau) /\ out.yin.betterTau.n > 0
      /\ IsFinite(out.yin.frequency) /\ out.yin.frequency.n > 0

\* a pitch found between the edges whose refined lag is not a whole lag
C27_Witness ==
  /\ lastOp = "yinDetect" /\ out.yin.tauEstimate # -1
  /\ ~AtUpperEdge
  /\ out.yin.betterTau # RInt(out.yin.tauEstimate)
  /\ IsFinite(out.yin.frequency) /\ out.yin.frequency.n > 0

\* result.confidence >= MIN_CONFIDENCE, on the confidence yinDetect returned
PassesConfidence(confidence) ==
  IsFinite(confidence) /\ RLe(Rat(MIN_CONFIDENCE, 1000), confidence)

\* C28: every result of yinDetect has a confidence within [0, 1]; a result with
\* a pitch has a confidence above 0.85, so the test against MIN_CONFIDENCE never
\* rejects it; and the result is "no pitch", with confidence 0, exactly when no
\* lag from 2 on has a normalized difference below the threshold.
C28_Confidence ==
  lastOp = "yinDetect" =>
    \A c \in {out.yin.confidence} :
      /\ IsFinite(c) /\ RLe(RZero, c) /\ RLe(c, RInt(1))
      /\ out.yin.frequency # RInt(-1) =>
           /\ out.yin.tauEstimate # -1
           /\ RLt(Rat(85, 100), c)
           /\ PassesConfidence(c)
      /\ out.yin.frequency = RInt(-1) <=> LagsBelow = {}
      /\ out.yin.frequency = RInt(-1) => c = RZero /\ out.yin.tauEstimate = -1

\* C28: a pitch found with a confidence strictly between 0.85 and 1
C28_Witness ==
  /\ lastOp = "yinDetect"
  /\ out.yin.frequency # RInt(-1)
  /\ RLt(Rat(85, 100), out.yin.confidence)
  /\ RLt(out.yin.confidence, RInt(1))

\* C29: the step that follows a stopTuner neither makes the session listen nor
\* runs a detectPitch pass on a frame: only a later call of startTuner can lead
\* out of Idle.
C29_StaysIdle ==
  [][lastOp = "stopTuner" => ~isListening' /\ ~(lastOp' = "frame" /\ out'.ran)]_vars

\* the handlers that change what a frame is measured against
TargetOps == {"setA4", "selectTuning", "stringClick", "numberKey"}

\* the session state, the noise learner and the smoothing state
RunningState ==
  <<isListening, pending, animFrameId, rafQueue, micStream, audioContext,
    timeDomainBuffer, yinBuffer, noiseCanceller, isLearningNoise, smoothedCents,
    wasInTune, pitchHistory, historyIndex, historyCount>>

\* the cents of the estimate of the last pass against the string updateUI takes
\* as its target, the locked one if a string is locked
TargetCents ==
  Cents(out.frequency,
        TargetString(ComputeStrings(activeTuningKey, a4Reference), lockedString,
                     out.frequency).freq)

\* C30: setA4, selectTuning and a lock by a string button or a number key leave
\* the session state, the noise learner, smoothedCents and wasInTune as they are; smoothedCents
\* changes only in an accepted frame or in stopTuner, which resets it; and an
\* accepted frame that follows a change of target blends its cents, measured
\* against the new target, with the smoothed value left from the old one.
C30_Retarget ==
  [][/\ lastOp' \in TargetOps => RunningState' = RunningState
     /\ smoothedCents' # smoothedCents =>
          \/ lastOp' = "frame" /\ out'.accepted
          \/ lastOp' = "stopTuner" /\ smoothedCents' = RZero
     /\ lastOp \in TargetOps /\ lastOp' = "frame" /\ out'.accepted =>
          \A before \in {smoothedCents} : \A cents \in {TargetCents'} :
            smoothedCents' = RAdd(RMul(Rat(6, 10), before), RMul(Rat(4, 10), cents))
    ]_vars

\* C30: the target has just changed in a session that is detecting and has a
\* smoothed value from the frames accepted so far
C30_Witness ==
  /\ lastOp \in TargetOps
  /\ isListening /\ ~isLearningNoise
  /\ smoothedCents # RZero

\* a reference tone is playing
TonePlaying == playingToneIndex # NoTone

\* the last handler was playReferenceTone with an index no string has
playReferenceToneMisses == lastOp = "playReferenceTone" /\ out.arg \notin 0..5

\* the tone state is whole: a tone is playing exactly when there is a tone
\* context and a timer to stop it, and that timer is the only one pending
ToneWhole ==
  /\ TonePlaying <=> (toneContext /\ toneTimeout # 0)
  /\ TonePlaying <=> (toneContext \/ toneTimeout # 0)
  /\ toneTimers = IF toneTimeout # 0 THEN {toneTimeout} ELSE {}
  /\ playReferenceToneMisses => ~TonePlaying

\* C31: at most one reference tone is live: after every handler a tone is playing
\* exactly when its context and its timer exist, and no other timer is pending;
\* playReferenceTone with an index out of range leaves no tone playing; a timer
\* that fires while a tone plays is the timer of that tone, never that of an
\* earlier one; and a tone that plays is eventually stopped.
C31_OneTone ==
  /\ []ToneWhole
  /\ [][lastOp' = "toneEnds" /\ TonePlaying => out'.arg = toneTimeout /\ ~TonePlaying']_vars
  /\ TonePlaying ~> ~TonePlaying

\* C31: a tone started by a lock click has been stopped by its own timer
C31_Witness ==
  /\ lastOp = "toneEnds"
  /\ lockedString # NoLock
  /\ ~TonePlaying /\ ~toneContext /\ toneTimeout = 0 /\ toneTimers = {}

====
